---- MODULE Spec2Model ----
(***************************************************************************)
(* Auto Mode click detector (ImageModalDetector) and the image acquisition *)
(* pipelines of the content script, as a state machine over a small page.  *)
(*                                                                         *)
(* The page is a fixed universe of <img> elements (IMG, in document order) *)
(* and container elements (ELEM); the variable dom holds the images that   *)
(* are attached to the document at the moment, and page scripts attach and *)
(* detach them at any time.  Time is the value Date.now() returns.         *)
(***************************************************************************)
EXTENDS Integers, Sequences, FiniteSets

(***************************************************************************)
(* Configuration of the detector.                                          *)
(***************************************************************************)
MODAL_DETECTION_DELAY_MS == 800
MIN_IMAGE_SIZE == 150
CAPTURE_COOLDOWN_MS == 3000

(***************************************************************************)
(* Bounds of the model.                                                    *)
(***************************************************************************)
\* number of click events the page delivers
MaxClicks == 2
\* the clock advances in steps of Tick milliseconds ...
Tick == 1500
\* ... at most MaxTicks times
MaxTicks == 3
\* Date.now() when the detector is constructed (milliseconds since the epoch)
Epoch == 50000

MaxTime == Epoch + MaxTicks * Tick

(***************************************************************************)
(* Strings.  A URL is a pair <<head, rest>> so that startsWith on the head *)
(* is computed; the empty string is <<"", "">>.  A MIME type is a pair     *)
(* <<"image/", "png">>.  A data URL is a record of its parts               *)
(*   "data:" mime [";base64"] "," payload      with its total length and   *)
(* whether the payload holds the picture (drawn) or blank pixels.          *)
(***************************************************************************)
EmptyStr == <<"", "">>
NoSrc == <<"null", "">>
Null == [null |-> TRUE]

DataUrl(mime, len, drawn) == [mime |-> mime, base64 |-> TRUE, len |-> len, drawn |-> drawn]
\* canvas.toDataURL of a canvas with no pixels: the string "data:,"
EmptyDataUrl == [mime |-> EmptyStr, base64 |-> FALSE, len |-> 6, drawn |-> FALSE]

\* s.startsWith('data:image/svg') for a URL s
StartsWithDataImageSvg(s) == s[1] = "data:image/svg"
\* u.startsWith('data:image/png;base64,') for a data URL u
StartsWithDataImagePngBase64(u) == u.mime = <<"image/", "png">> /\ u.base64
\* u.startsWith('data:image/') for a data URL u
StartsWithDataImage(u) == u.mime[1] = "image/"
\* a validation that accepts every data URL
MatchesDataImageBase64_Any(u) == TRUE
\* u.match(/^data:image\/[^;]+;base64,/) for a data URL u
MatchesDataImageBase64(u) == u.mime[1] = "image/" /\ u.mime[2] # "" /\ u.base64
\* t.startsWith('image/') for a MIME type t
StartsWithImage(t) == t[1] = "image/"

(***************************************************************************)
(* The page.                                                               *)
(***************************************************************************)
InnerWidth == 1200
InnerHeight == 800

Rect(l, t, w, h) ==
    [left |-> l, top |-> t, right |-> l + w, bottom |-> t + h, width |-> w, height |-> h]

\* a response of fetch(): kind "ok" (response.ok), "status" (a response that is
\* not ok) or "throw" (the request fails); type is the blob's MIME type;
\* convert is what re-encoding the bytes meets: "ok", "decodeError"
\* (createImageBitmap rejects), "noCtx" (no 2D context) or "nullBlob"
\* (toBlob delivers null); reads: the FileReader delivers the bytes
Resp(kind, type, convert, reads) ==
    [kind |-> kind, type |-> type, convert |-> convert, reads |-> reads]

Jpeg == <<"image/", "jpeg">>
Png == <<"image/", "png">>
Webp == <<"image/", "webp">>
Avif == <<"image/", "avif">>
Gif == <<"image/", "gif">>
Html == <<"text/", "html">>

\* Container elements, in document order.  closest is the element that
\* closest('[class*="image"], [class*="product"], ...') returns (0: none).
ELEM == <<
    [position |-> "static",   zIndex |-> "auto", closest |-> 1],   \* 1 div.product-card
    [position |-> "static",   zIndex |-> "auto", closest |-> 1],   \* 2 span inside the card
    [position |-> "fixed",    zIndex |-> "1000", closest |-> 0],   \* 3 lightbox overlay
    [position |-> "absolute", zIndex |-> "100",  closest |-> 0]    \* 4 zoom pane
>>

\* <img> elements, in document order.  anc: the container elements the image
\* is a descendant of.  canvasCtx: getContext('2d') returns a context;
\* tainted: the image is cross-origin without CORS headers, so reading the
\* canvas back throws; complete: img.complete.
IMG == <<
    \* 1 lazy placeholder carrying the thumbnail's URL, not loaded yet
    [src |-> <<"https:", "a">>, currentSrc |-> EmptyStr,
     naturalWidth |-> 0, naturalHeight |-> 0, offsetWidth |-> 100, offsetHeight |-> 100,
     rect |-> Rect(0, 0, 100, 100), anc |-> {}, closest |-> 0,
     canvasCtx |-> TRUE, tainted |-> FALSE, complete |-> FALSE,
     fetchOmit |-> Resp("ok", Jpeg, "ok", TRUE), fetchInclude |-> Resp("ok", Jpeg, "ok", TRUE)],
    \* 2 product thumbnail, same origin
    [src |-> <<"https:", "a">>, currentSrc |-> <<"https:", "a">>,
     naturalWidth |-> 200, naturalHeight |-> 200, offsetWidth |-> 200, offsetHeight |-> 200,
     rect |-> Rect(100, 100, 200, 200), anc |-> {1}, closest |-> 1,
     canvasCtx |-> TRUE, tainted |-> FALSE, complete |-> TRUE,
     fetchOmit |-> Resp("ok", Jpeg, "ok", TRUE), fetchInclude |-> Resp("ok", Jpeg, "ok", TRUE)],
    \* 3 full-size image of the lightbox, cross-origin, fetchable
    [src |-> <<"https:", "b">>, currentSrc |-> <<"https:", "b">>,
     naturalWidth |-> 800, naturalHeight |-> 1000, offsetWidth |-> 640, offsetHeight |-> 800,
     rect |-> Rect(200, 0, 640, 800), anc |-> {3}, closest |-> 0,
     canvasCtx |-> TRUE, tainted |-> TRUE, complete |-> TRUE,
     fetchOmit |-> Resp("ok", Webp, "ok", TRUE), fetchInclude |-> Resp("ok", Webp, "ok", TRUE)],
    \* 4 tall banner strip of the lightbox: 100 x 1000
    [src |-> <<"https:", "c">>, currentSrc |-> <<"https:", "c">>,
     naturalWidth |-> 100, naturalHeight |-> 1000, offsetWidth |-> 100, offsetHeight |-> 800,
     rect |-> Rect(0, 0, 100, 800), anc |-> {3}, closest |-> 0,
     canvasCtx |-> TRUE, tainted |-> FALSE, complete |-> TRUE,
     fetchOmit |-> Resp("ok", Png, "ok", TRUE), fetchInclude |-> Resp("ok", Png, "ok", TRUE)],
    \* 5 larger rendition in the zoom pane, same origin
    [src |-> <<"https:", "d">>, currentSrc |-> <<"https:", "d">>,
     naturalWidth |-> 400, naturalHeight |-> 300, offsetWidth |-> 400, offsetHeight |-> 300,
     rect |-> Rect(400, 100, 400, 300), anc |-> {4}, closest |-> 0,
     canvasCtx |-> TRUE, tainted |-> FALSE, complete |-> TRUE,
     fetchOmit |-> Resp("ok", Jpeg, "ok", TRUE), fetchInclude |-> Resp("ok", Jpeg, "ok", TRUE)],
    \* 6 inline SVG placeholder covering the page
    [src |-> <<"data:image/svg", "+xml;x">>, currentSrc |-> <<"data:image/svg", "+xml;x">>,
     naturalWidth |-> 1000, naturalHeight |-> 1000, offsetWidth |-> 1000, offsetHeight |-> 1000,
     rect |-> Rect(0, 0, 1000, 1000), anc |-> {}, closest |-> 0,
     canvasCtx |-> TRUE, tainted |-> FALSE, complete |-> TRUE,
     fetchOmit |-> Resp("ok", <<"image/", "svg+xml">>, "decodeError", TRUE),
     fetchInclude |-> Resp("ok", <<"image/", "svg+xml">>, "decodeError", TRUE)],
    \* 7 partner image, cross-origin, served only to requests with credentials
    [src |-> <<"https:", "e">>, currentSrc |-> <<"https:", "e">>,
     naturalWidth |-> 300, naturalHeight |-> 250, offsetWidth |-> 300, offsetHeight |-> 250,
     rect |-> Rect(800, 400, 300, 250), anc |-> {}, closest |-> 0,
     canvasCtx |-> TRUE, tainted |-> TRUE, complete |-> TRUE,
     fetchOmit |-> Resp("status", Html, "decodeError", TRUE),
     fetchInclude |-> Resp("ok", Jpeg, "ok", TRUE)],
    \* 8 preview of the next picture inside the lightbox, same origin
    [src |-> <<"https:", "f">>, currentSrc |-> <<"https:", "f">>,
     naturalWidth |-> 160, naturalHeight |-> 160, offsetWidth |-> 160, offsetHeight |-> 160,
     rect |-> Rect(900, 600, 160, 160), anc |-> {3}, closest |-> 0,
     canvasCtx |-> TRUE, tainted |-> FALSE, complete |-> TRUE,
     fetchOmit |-> Resp("ok", Png, "ok", TRUE), fetchInclude |-> Resp("ok", Png, "ok", TRUE)],
    \* 9 hero picture of the footer, below the fold, same origin
    [src |-> <<"https:", "g">>, currentSrc |-> <<"https:", "g">>,
     naturalWidth |-> 1000, naturalHeight |-> 600, offsetWidth |-> 1000, offsetHeight |-> 600,
     rect |-> Rect(0, 2000, 1000, 600), anc |-> {}, closest |-> 0,
     canvasCtx |-> TRUE, tainted |-> FALSE, complete |-> TRUE,
     fetchOmit |-> Resp("ok", Jpeg, "ok", TRUE), fetchInclude |-> Resp("ok", Jpeg, "ok", TRUE)],
    \* 10 panorama, same origin, too large for a canvas: getContext('2d') is null
    [src |-> <<"https:", "h">>, currentSrc |-> <<"https:", "h">>,
     naturalWidth |-> 20000, naturalHeight |-> 3000, offsetWidth |-> 1200, offsetHeight |-> 180,
     rect |-> Rect(0, 300, 1200, 180), anc |-> {}, closest |-> 0,
     canvasCtx |-> FALSE, tainted |-> FALSE, complete |-> TRUE,
     fetchOmit |-> Resp("ok", Jpeg, "ok", TRUE), fetchInclude |-> Resp("ok", Jpeg, "ok", TRUE)],
    \* 11 members-only picture, broken and not rendered: its URL answers every
    \* request with the HTML of a login page
    [src |-> <<"https:", "m">>, currentSrc |-> EmptyStr,
     naturalWidth |-> 0, naturalHeight |-> 0, offsetWidth |-> 0, offsetHeight |-> 0,
     rect |-> Rect(0, 0, 0, 0), anc |-> {}, closest |-> 0,
     canvasCtx |-> TRUE, tainted |-> FALSE, complete |-> TRUE,
     fetchOmit |-> Resp("ok", Html, "decodeError", TRUE),
     fetchInclude |-> Resp("ok", Html, "decodeError", TRUE)],
    \* 12 cross-origin AVIF picture; createImageBitmap cannot decode it
    [src |-> <<"https:", "n">>, currentSrc |-> <<"https:", "n">>,
     naturalWidth |-> 500, naturalHeight |-> 400, offsetWidth |-> 500, offsetHeight |-> 400,
     rect |-> Rect(600, 100, 500, 400), anc |-> {}, closest |-> 0,
     canvasCtx |-> TRUE, tainted |-> TRUE, complete |-> TRUE,
     fetchOmit |-> Resp("ok", Avif, "decodeError", TRUE),
     fetchInclude |-> Resp("ok", Avif, "decodeError", TRUE)],
    \* 13 cross-origin WebP picture; no 2D context is left for re-encoding it
    [src |-> <<"https:", "p">>, currentSrc |-> <<"https:", "p">>,
     naturalWidth |-> 500, naturalHeight |-> 400, offsetWidth |-> 500, offsetHeight |-> 400,
     rect |-> Rect(600, 100, 500, 400), anc |-> {}, closest |-> 0,
     canvasCtx |-> TRUE, tainted |-> TRUE, complete |-> TRUE,
     fetchOmit |-> Resp("ok", Webp, "noCtx", TRUE),
     fetchInclude |-> Resp("ok", Webp, "noCtx", TRUE)],
    \* 14 cross-origin GIF picture; toBlob delivers null for it
    [src |-> <<"https:", "q">>, currentSrc |-> <<"https:", "q">>,
     naturalWidth |-> 500, naturalHeight |-> 400, offsetWidth |-> 500, offsetHeight |-> 400,
     rect |-> Rect(600, 100, 500, 400), anc |-> {}, closest |-> 0,
     canvasCtx |-> TRUE, tainted |-> TRUE, complete |-> TRUE,
     fetchOmit |-> Resp("ok", Gif, "nullBlob", TRUE),
     fetchInclude |-> Resp("ok", Gif, "nullBlob", TRUE)],
    \* 15 responsive picture of the product card, after the thumbnail: it has a
    \* srcset and no src attribute, so img.src is "" and currentSrc the chosen URL
    [src |-> EmptyStr, currentSrc |-> <<"https:", "r">>,
     naturalWidth |-> 600, naturalHeight |-> 600, offsetWidth |-> 300, offsetHeight |-> 300,
     rect |-> Rect(300, 100, 300, 300), anc |-> {1}, closest |-> 1,
     canvasCtx |-> TRUE, tainted |-> FALSE, complete |-> TRUE,
     fetchOmit |-> Resp("ok", Jpeg, "ok", TRUE), fetchInclude |-> Resp("ok", Jpeg, "ok", TRUE)]
>>

\* The documents the page's scripts build: the sets of attached images.
Pages == {
    {2},           \* the product card
    {1, 2},        \* with the lazy placeholder ahead of the thumbnail
    {2, 3, 4},     \* the lightbox shows the full-size image and a banner strip
    {2, 3, 8},     \* the lightbox shows the full-size image and a preview
    {2, 4},        \* the lightbox shows only the banner strip
    {2, 5, 7, 9},  \* the zoom pane is open, a partner image next to it, the footer below
    {2, 6},        \* an SVG placeholder covers the page
    {2, 7},        \* a partner image is shown next to the card
    {2, 10},       \* a panorama is shown next to the card
    {2, 11},       \* a members-only picture is hidden next to the card
    {2, 12},       \* an AVIF picture is shown next to the card
    {2, 13},       \* a WebP picture is shown next to the card
    {2, 14},       \* a GIF picture is shown next to the card
    {2, 15},       \* the card holds a responsive picture after the thumbnail
    {}             \* the page removed its images
}

\* The documents of a product page whose thumbnail opens a lightbox.
CorePages == {{2}, {2, 3, 4}}

Imgs == 1..Len(IMG)
Elems == 1..Len(ELEM)
NoImg == 0
\* the target of a click that is not recorded
NoTarget == <<"none", 0>>
\* no CAPTURE_IMAGE message has arrived
NoCapture ==
    [url |-> EmptyStr, phase |-> "idle", imgElements |-> {}, img |-> NoImg,
     taint |-> FALSE, response |-> Null, via |-> "none", orphaned |-> FALSE]

\* x || y of JavaScript on numbers
Or(x, y) == IF x # 0 THEN x ELSE y
\* s || t of JavaScript on strings
OrStr(s, t) == IF s # EmptyStr THEN s ELSE t
\* the least element of a non-empty set of numbers
Min(S) == CHOOSE x \in S : \A y \in S : x <= y

(***************************************************************************)
(* State.                                                                  *)
(***************************************************************************)
VARIABLES
    isEnabled,        \* ImageModalDetector.isEnabled
    isProcessing,     \* ImageModalDetector.isProcessing (the busy flag)
    lastCapturedSrc,  \* ImageModalDetector.lastCapturedSrc
    lastCaptureTime,  \* ImageModalDetector.lastCaptureTime
    listeners,        \* capturing click listeners of the document bound to handleClick
    now,              \* Date.now()
    dom,              \* the <img> elements attached to the document
    seqs,             \* detection sequences in flight: settle timers and acquisitions
    emitted,          \* the DetectedImage of the latest callback invocation, if any
    clicks,           \* click events delivered so far
    lastClick,        \* the latest click: the image it resolved to, whether a listener ran
    capture,          \* the CAPTURE_IMAGE request of the content script, if any
    storage,          \* browser.storage.local: the keys the extension shares
    script,           \* the content script's Auto Mode: detector, isProcessing, messages
    background,       \* the background script: popup window state, requests in flight
    sidepanel         \* the side panel: its processPendingResults runs and the history

vars == <<isEnabled, isProcessing, lastCapturedSrc, lastCaptureTime, listeners,
          now, dom, seqs, emitted, clicks, lastClick, capture,
          storage, script, background, sidepanel>>

\* the state outside the page and the detector
others == <<storage, script, background, sidepanel>>

detector == <<isEnabled, isProcessing, lastCapturedSrc, lastCaptureTime, listeners>>

(***************************************************************************)
(* ImageModalDetector: reading the page.                                   *)
(***************************************************************************)
Width(i) == Or(IMG[i].naturalWidth, IMG[i].offsetWidth)
Height(i) == Or(IMG[i].naturalHeight, IMG[i].offsetHeight)
EffectiveSrc(i) == OrStr(IMG[i].currentSrc, IMG[i].src)

\* getImageInfo without its minimum-size filter
getImageInfo_NoMinSize(i) ==
    [src |-> EffectiveSrc(i), width |-> Width(i), height |-> Height(i),
     rect |-> IMG[i].rect]

getImageInfo(i) ==
    IF Width(i) < MIN_IMAGE_SIZE \/ Height(i) < MIN_IMAGE_SIZE
    THEN Null
    ELSE [src |-> EffectiveSrc(i), width |-> Width(i), height |-> Height(i),
          rect |-> IMG[i].rect]

\* el.querySelector('img') of a container element: its first <img> descendant
querySelectorImg(d, e) ==
    LET inside == {i \in d : e \in IMG[i].anc}
    IN IF inside = {} THEN NoImg ELSE Min(inside)

\* A click target is <<"img", i>> or <<"el", e>>.  The <img> element whose
\* getImageInfo findClickedImage returns (NoImg: it returns null outright).
ClickedElement(d, target) ==
    LET isImg == target[1] = "img"
        img == IF isImg THEN NoImg ELSE querySelectorImg(d, target[2])
        parent == IF isImg THEN IMG[target[2]].closest ELSE ELEM[target[2]].closest
        parentImg == IF parent = 0 THEN NoImg ELSE querySelectorImg(d, parent)
    IN IF isImg /\ IMG[target[2]].src # EmptyStr THEN target[2]
       ELSE IF img # NoImg /\ IMG[img].src # EmptyStr THEN img
       ELSE IF parentImg # NoImg /\ IMG[parentImg].src # EmptyStr THEN parentImg
       ELSE NoImg

findClickedImage(d, target) ==
    IF ClickedElement(d, target) = NoImg THEN Null
    ELSE getImageInfo(ClickedElement(d, target))

\* parseInt(style.zIndex) || 0 for the z-index values of the page
ParseIntOr0(z) ==
    CASE z = "1000" -> 1000
      [] z = "101" -> 101
      [] z = "100" -> 100
      [] OTHER -> 0

\* the modal test with z-index 100 admitted
IsModalIndicator_AtLeast100(e) ==
    /\ ELEM[e].position \in {"fixed", "absolute"}
    /\ ParseIntOr0(ELEM[e].zIndex) >= 100

IsModalIndicator(e) ==
    /\ ELEM[e].position \in {"fixed", "absolute"}
    /\ ParseIntOr0(ELEM[e].zIndex) > 100

\* The scan of findImageInModal over the pairs (element, <img> descendant) in
\* document order, k = 1 .. Len(ELEM) * Len(IMG); best is the image found so far.
RECURSIVE ModalScan(_, _, _)
ModalScan(d, k, best) ==
    IF k > Len(ELEM) * Len(IMG) THEN best
    ELSE LET e == ((k - 1) \div Len(IMG)) + 1
             i == ((k - 1) % Len(IMG)) + 1
             bestSize == IF best = NoImg THEN 0 ELSE Width(best) * Height(best)
             takes ==
                 /\ IsModalIndicator(e)
                 /\ i \in d /\ e \in IMG[i].anc
                 /\ IMG[i].src # EmptyStr /\ ~StartsWithDataImageSvg(IMG[i].src)
                 /\ ~(Width(i) < MIN_IMAGE_SIZE \/ Height(i) < MIN_IMAGE_SIZE)
                 /\ ~(IMG[i].rect.width = 0 \/ IMG[i].rect.height = 0)
                 /\ Width(i) * Height(i) > bestSize
         IN ModalScan(d, k + 1, IF takes THEN i ELSE best)

findImageInModal(d) == ModalScan(d, 1, NoImg)

\* The loop of findLargestVisibleImage over the images in document order.
RECURSIVE LargestScan(_, _, _, _, _)
LargestScan(d, clickedSize, i, best, bestSize) ==
    IF i > Len(IMG) THEN best
    ELSE LET size == Width(i) * Height(i)
             rect == IMG[i].rect
             takes ==
                 /\ i \in d
                 /\ IMG[i].src # EmptyStr /\ ~StartsWithDataImageSvg(IMG[i].src)
                 /\ ~(size <= clickedSize)
                 /\ ~(Width(i) < MIN_IMAGE_SIZE \/ Height(i) < MIN_IMAGE_SIZE)
                 /\ ~(rect.width = 0 \/ rect.height = 0)
                 /\ ~(rect.bottom < 0 \/ rect.top > InnerHeight)
                 /\ ~(rect.right < 0 \/ rect.left > InnerWidth)
                 /\ size > bestSize
         IN LargestScan(d, clickedSize, i + 1,
                        IF takes THEN i ELSE best, IF takes THEN size ELSE bestSize)

\* findLargestVisibleImage without the comparison to the clicked image
findLargestVisibleImage_AnySize(d, clickedImage) ==
    LargestScan(d, 0, 1, NoImg, 0)

findLargestVisibleImage(d, clickedImage) ==
    LargestScan(d, clickedImage.width * clickedImage.height, 1, NoImg,
                clickedImage.width * clickedImage.height)

\* findImageBySrc that takes the first image of the document
findImageBySrc_FirstImage(d, src) ==
    IF d = {} THEN NoImg ELSE Min(d)

findImageBySrc(d, src) ==
    LET found == {i \in d : IMG[i].src = src \/ IMG[i].currentSrc = src}
    IN IF found = {} THEN NoImg ELSE Min(found)

(***************************************************************************)
(* ImageModalDetector: the acquisition pipeline (imageToDataUrl).          *)
(***************************************************************************)
\* canvas.toDataURL('image/png') of a readable canvas of w x h pixels: the
\* 22 characters of "data:image/png;base64," and the base64 of a PNG file
\* (at least 67 bytes, 92 characters); "data:," when the canvas has no pixels.
\* An image that is not loaded yet draws nothing: the pixels stay blank.
toDataURL(i) ==
    LET w == Or(IMG[i].naturalWidth, IMG[i].offsetWidth)
        h == Or(IMG[i].naturalHeight, IMG[i].offsetHeight)
    IN IF w = 0 \/ h = 0 THEN EmptyDataUrl
       ELSE DataUrl(Png, 22 + 92 + w + h, IMG[i].complete)

\* Method 1 of imageToDataUrl. [k |-> "return", v |-> result] when the method
\* returns from imageToDataUrl, [k |-> "fetch"] when control reaches method 2.
\* Method 1 where a tainted canvas ends imageToDataUrl
CanvasMethod_TaintAborts(i) ==
    IF ~IMG[i].canvasCtx THEN [k |-> "return", v |-> Null]
    ELSE IF IMG[i].tainted THEN [k |-> "return", v |-> Null]
    ELSE LET dataUrl == toDataURL(i)
         IN IF dataUrl.len > 100 /\ StartsWithDataImagePngBase64(dataUrl)
            THEN [k |-> "return", v |-> dataUrl]
            ELSE [k |-> "fetch", v |-> Null]

CanvasMethod(i) ==
    IF ~IMG[i].canvasCtx THEN [k |-> "return", v |-> Null]
    ELSE IF IMG[i].tainted THEN [k |-> "fetch", v |-> Null]
    ELSE LET dataUrl == toDataURL(i)
         IN IF dataUrl.len > 100 /\ StartsWithDataImagePngBase64(dataUrl)
            THEN [k |-> "return", v |-> dataUrl]
            ELSE [k |-> "fetch", v |-> Null]

\* convertToPng that resolves to an empty blob when the conversion fails
convertToPng_DropsOnError(resp) ==
    IF resp.type = Png THEN resp.type
    ELSE IF resp.convert = "ok" THEN Png
    ELSE EmptyStr

\* convertToPng: the MIME type of the blob it resolves to
convertToPng(resp) ==
    IF resp.type = Png THEN resp.type
    ELSE IF resp.convert = "ok" THEN Png
    ELSE resp.type

\* reader.readAsDataURL(blob): "data:" type ";base64," payload
readAsDataURL(type) == DataUrl(type, 200, TRUE)

\* Method 2 of imageToDataUrl, from the response to fetch(src, {mode: 'cors',
\* credentials: 'omit'}): the data URL, or Null.
FetchMethod(i) ==
    LET resp == IMG[i].fetchOmit
    IN IF resp.kind # "ok" THEN Null
       ELSE IF ~StartsWithImage(resp.type) THEN Null
       ELSE IF ~resp.reads THEN Null
       ELSE LET result == readAsDataURL(convertToPng(resp))
            IN IF StartsWithDataImage(result) THEN result ELSE Null

(***************************************************************************)
(* The extension around the detector, at start.                            *)
(***************************************************************************)
\* browser.storage.local: autoMode is state.autoModeEnabled of the key
\* 'auto-mode-storage', userImage whether 'try-on-storage' holds a user photo,
\* apiKey whether it holds an API key, pendingAutoModeResults the list of
\* that key
StorageInit ==
    [autoMode |-> FALSE, userImage |-> TRUE, apiKey |-> TRUE,
     pendingAutoModeResults |-> <<>>]

\* The content script after main() has registered its message listener and
\* called getAutoModeEnabled().  detector: the instance the variable detector
\* refers to (0: null); enabled: the instances whose isEnabled is true;
\* startup: "reading" (the storage read is under way), "read" (it returned
\* autoModeEnabled, main() has not resumed yet), "done"; inbox: the
\* AUTO_MODE_CHANGED messages on their way to this tab; outstanding: the
\* AUTO_TRYON requests without a response; timers: the pending 1000 ms
\* timers; created, sent, detected, toggles count instances, AUTO_TRYON
\* messages, callback invocations and changes of the auto-mode setting.
ScriptInit ==
    [detector |-> 0, enabled |-> {}, created |-> 0, isProcessing |-> FALSE,
     startup |-> "reading", autoModeEnabled |-> FALSE, inbox |-> <<>>,
     outstanding |-> 0, timers |-> 0, sent |-> 0, detected |-> 0, toggles |-> 0]

\* a PopupState of request req; "none" stands for null
PopupState(state, req) == [state |-> state, req |-> req]
NoPopupState == PopupState("none", 0)

\* The background script.  resultPopupWindowId: 0 is null; window: the id of
\* the result popup window that is open (0: none), windows: the windows
\* created so far; loaded: the popup page has registered its listener;
\* shown: the PopupState the popup page displays; timers: the pending 500 ms
\* timers of showResultPopup with the state they push; reqs: the calls of
\* handleAutoTryOn; requested: their number.
BackgroundInit ==
    [resultPopupWindowId |-> 0, currentPopupState |-> NoPopupState,
     window |-> 0, windows |-> 0, loaded |-> FALSE, shown |-> NoPopupState,
     timers |-> {}, reqs |-> {}, requested |-> 0]

\* The side panel.  mounted: the effect of App has run; runs: the calls of
\* processPendingResults in progress, each with the list it read; started:
\* their number; events: storage.onChanged notifications for
\* pendingAutoModeResults not yet delivered; history: the ids of the pending
\* results saved with saveTryOnResult, in order.
SidepanelInit ==
    [mounted |-> FALSE, runs |-> {}, started |-> 0, events |-> 0, history |-> <<>>]

(***************************************************************************)
(* ImageModalDetector: operations.                                         *)
(***************************************************************************)
Init ==
    /\ isEnabled = FALSE
    /\ isProcessing = FALSE
    /\ lastCapturedSrc = NoSrc
    /\ lastCaptureTime = 0
    /\ listeners = 0
    /\ now = Epoch
    /\ dom = {2}
    /\ seqs = {}
    /\ emitted = {}
    /\ clicks = 0
    /\ lastClick = [el |-> NoImg, target |-> NoTarget, heard |-> FALSE,
                    cooling |-> FALSE, threw |-> FALSE]
    /\ capture = NoCapture
    /\ storage = StorageInit
    /\ script = ScriptInit
    /\ background = BackgroundInit
    /\ sidepanel = SidepanelInit

\* enable() without its guard, registering a new bound listener on each call
enable_Rebinds ==
    /\ isEnabled' = TRUE
    /\ listeners' = IF listeners < 2 THEN listeners + 1 ELSE listeners
    /\ UNCHANGED <<isProcessing, lastCapturedSrc, lastCaptureTime, now, dom, seqs,
                   emitted, clicks, lastClick, capture>>

enable ==
    /\ IF isEnabled
       THEN UNCHANGED <<isEnabled, listeners>>
       ELSE /\ isEnabled' = TRUE
            \* addEventListener ignores a listener that is registered already
            /\ listeners' = IF listeners = 0 THEN 1 ELSE listeners
    /\ UNCHANGED <<isProcessing, lastCapturedSrc, lastCaptureTime, now, dom, seqs,
                   emitted, clicks, lastClick, capture>>

\* disable() that does not remove the listener
disable_KeepsListener ==
    /\ IF ~isEnabled
       THEN UNCHANGED <<isEnabled, listeners, isProcessing, seqs>>
       ELSE /\ isEnabled' = FALSE
            /\ UNCHANGED listeners
            /\ isProcessing' = FALSE
            /\ seqs' = {IF s.phase = "timer" THEN [s EXCEPT !.disabled = TRUE] ELSE s :
                        s \in seqs}
    /\ UNCHANGED <<lastCapturedSrc, lastCaptureTime, now, dom, emitted, clicks, lastClick, capture>>

\* disable() leaves the settle timers and acquisitions in flight; the field
\* disabled of a sequence records that disable() ran while its timer was pending.
disable ==
    /\ IF ~isEnabled
       THEN UNCHANGED <<isEnabled, listeners, isProcessing, seqs>>
       ELSE /\ isEnabled' = FALSE
            /\ listeners' = 0
            /\ isProcessing' = FALSE
            /\ seqs' = {IF s.phase = "timer" THEN [s EXCEPT !.disabled = TRUE] ELSE s :
                        s \in seqs}
    /\ UNCHANGED <<lastCapturedSrc, lastCaptureTime, now, dom, emitted, clicks, lastClick, capture>>

Targets(d) == {<<"img", i>> : i \in d} \cup {<<"el", e>> : e \in Elems}

\* handleClick without the cooldown check
handleClick_NoCooldown(target) ==
    LET clickedImage == findClickedImage(dom, target)
    IN IF isProcessing THEN UNCHANGED <<isProcessing, seqs>>
       ELSE IF clickedImage = Null THEN UNCHANGED <<isProcessing, seqs>>
       ELSE /\ isProcessing' = TRUE
            /\ seqs' = seqs \cup
                 {[id |-> clicks + 1, phase |-> "timer",
                   due |-> now + MODAL_DETECTION_DELAY_MS,
                   clicked |-> clickedImage, clickedEl |-> ClickedElement(dom, target),
                   clickTime |-> now, disabled |-> FALSE,
                   img |-> NoImg, source |-> "none", tier |-> "none"]}

\* handleClick, run by the listener for a click on target
handleClick(target) ==
    LET clickedImage == findClickedImage(dom, target)
    IN IF isProcessing THEN UNCHANGED <<isProcessing, seqs>>
       ELSE IF clickedImage = Null THEN UNCHANGED <<isProcessing, seqs>>
       ELSE IF now - lastCaptureTime < CAPTURE_COOLDOWN_MS
       THEN UNCHANGED <<isProcessing, seqs>>
       ELSE /\ isProcessing' = TRUE
            /\ seqs' = seqs \cup
                 {[id |-> clicks + 1, phase |-> "timer",
                   due |-> now + MODAL_DETECTION_DELAY_MS,
                   clicked |-> clickedImage, clickedEl |-> ClickedElement(dom, target),
                   clickTime |-> now, disabled |-> FALSE,
                   img |-> NoImg, source |-> "none", tier |-> "none"]}

\* A click event on target, one of at most n: the document runs each
\* registered listener.  observed is what lastClick records as the target.
ClickObserved(target, n, observed) ==
    /\ clicks < n
    /\ clicks' = clicks + 1
    /\ lastClick' = [el |-> ClickedElement(dom, target), target |-> observed,
                     heard |-> listeners # 0,
                     cooling |-> now - lastCaptureTime < CAPTURE_COOLDOWN_MS,
                     threw |-> FALSE]
    /\ IF listeners = 0
       THEN UNCHANGED <<isProcessing, seqs>>
       ELSE handleClick(target)
    /\ UNCHANGED <<isEnabled, lastCapturedSrc, lastCaptureTime, listeners, now, dom, emitted,
                   capture>>

Click(target) == ClickObserved(target, MaxClicks, NoTarget)

\* the only click of a page on which one click is observed: its target is recorded
SingleClick(target) == ClickObserved(target, 1, target)

\* A click event whose target is the document itself (a script dispatches it
\* on document).  document instanceof HTMLImageElement is false and
\* document.querySelector('img') is the first image of the page; when that
\* finds no image with a src, findClickedImage goes on to target.closest(...),
\* which a Document does not have: the TypeError leaves handleClick.
DocumentClick ==
    /\ clicks < MaxClicks
    /\ clicks' = clicks + 1
    /\ IF dom # {} /\ IMG[Min(dom)].src # EmptyStr
       THEN /\ lastClick' = [el |-> Min(dom), target |-> NoTarget,
                             heard |-> listeners # 0,
                             cooling |-> now - lastCaptureTime < CAPTURE_COOLDOWN_MS,
                             threw |-> FALSE]
            /\ IF listeners = 0
               THEN UNCHANGED <<isProcessing, seqs>>
               ELSE handleClick(<<"img", Min(dom)>>)
       ELSE /\ lastClick' = [el |-> NoImg, target |-> NoTarget,
                             heard |-> listeners # 0,
                             cooling |-> now - lastCaptureTime < CAPTURE_COOLDOWN_MS,
                             threw |-> listeners # 0 /\ ~isProcessing]
            /\ UNCHANGED <<isProcessing, seqs>>
    /\ UNCHANGED <<isEnabled, lastCapturedSrc, lastCaptureTime, listeners, now, dom, emitted,
                   capture>>

\* findAndCaptureModalImage that looks for the largest visible image first
Candidate_LargestFirst(d, clickedImage) ==
    LET modalImage == findImageInModal(d)
        largestImage == findLargestVisibleImage(d, clickedImage)
        clickedElement == findImageBySrc(d, clickedImage.src)
    IN IF largestImage # NoImg THEN [img |-> largestImage, source |-> "modal", tier |-> "B"]
       ELSE IF modalImage # NoImg
       THEN [img |-> modalImage, source |-> "modal", tier |-> "A"]
       ELSE [img |-> clickedElement, source |-> "direct", tier |-> "C"]

\* The candidate findAndCaptureModalImage passes to captureImage
Candidate(d, clickedImage) ==
    LET modalImage == findImageInModal(d)
        largestImage == findLargestVisibleImage(d, clickedImage)
        clickedElement == findImageBySrc(d, clickedImage.src)
    IN IF modalImage # NoImg THEN [img |-> modalImage, source |-> "modal", tier |-> "A"]
       ELSE IF largestImage # NoImg
       THEN [img |-> largestImage, source |-> "modal", tier |-> "B"]
       ELSE [img |-> clickedElement, source |-> "direct", tier |-> "C"]

\* the duplicate check of captureImage
IsDuplicate(i) ==
    /\ EffectiveSrc(i) = lastCapturedSrc
    /\ now - lastCaptureTime < CAPTURE_COOLDOWN_MS

\* captureImage that calls the callback and leaves the anchor alone
Emit_KeepsAnchor(s, dataUrl, via) ==
    /\ UNCHANGED <<lastCapturedSrc, lastCaptureTime>>
    /\ emitted' =
         {[id |-> s.id, img |-> s.img, dataUrl |-> dataUrl,
           width |-> Width(s.img), height |-> Height(s.img),
           source |-> s.source, tier |-> s.tier, clicked |-> s.clicked,
           clickedEl |-> s.clickedEl,
           clickTime |-> s.clickTime, disabled |-> s.disabled, via |-> via]}

\* captureImage that records the anchor and never calls the callback
Emit_Silent(s, dataUrl, via) ==
    /\ lastCapturedSrc' = EffectiveSrc(s.img)
    /\ lastCaptureTime' = now
    /\ UNCHANGED emitted

\* captureImage past the await: the anchor is recorded and the callback runs.
\* via records which method of imageToDataUrl produced the data URL.
Emit(s, dataUrl, via) ==
    /\ lastCapturedSrc' = EffectiveSrc(s.img)
    /\ lastCaptureTime' = now
    /\ emitted' =
         {[id |-> s.id, img |-> s.img, dataUrl |-> dataUrl,
           width |-> Width(s.img), height |-> Height(s.img),
           source |-> s.source, tier |-> s.tier, clicked |-> s.clicked,
           clickedEl |-> s.clickedEl,
           clickTime |-> s.clickTime, disabled |-> s.disabled, via |-> via]}

\* the sequence ends without a capture
Abandon == UNCHANGED <<lastCapturedSrc, lastCaptureTime, emitted>>

\* The settle timer of sequence s fires: findAndCaptureModalImage runs up to
\* the first await of imageToDataUrl (the canvas method is synchronous).
\* Timers fire in the order of their due times.
TimerFires(s) ==
    /\ s \in seqs /\ s.phase = "timer"
    /\ now >= s.due
    /\ \A t \in seqs : t.phase = "timer" => <<s.due, s.id>> = <<t.due, t.id>>
                          \/ s.due < t.due \/ (s.due = t.due /\ s.id < t.id)
    /\ \E c \in {Candidate(dom, s.clicked)} :
         LET chosen == [s EXCEPT !.img = c.img, !.source = c.source, !.tier = c.tier,
                                 !.phase = "fetch"]
         IN IF c.img = NoImg \/ IsDuplicate(c.img)
            THEN /\ Abandon
                 /\ seqs' = seqs \ {s}
                 /\ isProcessing' = FALSE
            ELSE \E canvas \in {CanvasMethod(c.img)} :
                   IF canvas.k = "fetch"
                   THEN /\ Abandon
                        /\ seqs' = (seqs \ {s}) \cup {chosen}
                        /\ UNCHANGED isProcessing
                   ELSE /\ IF canvas.v = Null THEN Abandon
                           ELSE Emit(chosen, canvas.v, "canvas")
                        /\ seqs' = seqs \ {s}
                        /\ isProcessing' = FALSE
    /\ UNCHANGED <<isEnabled, listeners, now, dom, clicks, lastClick, capture>>

\* an acquisition that completes without resetting the busy flag
AcquisitionCompletes_StaysBusy(s) ==
    /\ s \in seqs /\ s.phase = "fetch"
    /\ LET dataUrl == FetchMethod(s.img)
       IN IF dataUrl = Null THEN Abandon ELSE Emit(s, dataUrl, "fetch")
    /\ seqs' = seqs \ {s}
    /\ UNCHANGED isProcessing
    /\ UNCHANGED <<isEnabled, listeners, now, dom, clicks, lastClick, capture>>

\* The fetch of sequence s and the conversions after it complete:
\* imageToDataUrl resolves, captureImage and the timer callback finish.
AcquisitionCompletes(s) ==
    /\ s \in seqs /\ s.phase = "fetch"
    /\ LET dataUrl == FetchMethod(s.img)
       IN IF dataUrl = Null THEN Abandon ELSE Emit(s, dataUrl, "fetch")
    /\ seqs' = seqs \ {s}
    /\ isProcessing' = FALSE
    /\ UNCHANGED <<isEnabled, listeners, now, dom, clicks, lastClick, capture>>

(***************************************************************************)
(* Content script: the context-menu capture (CAPTURE_IMAGE).               *)
(***************************************************************************)
\* message.imageUrl of a CAPTURE_IMAGE message that passes the test of onMessage
Urls == {IMG[i].src : i \in Imgs} \ {EmptyStr}

\* the responses of the network to a request for url
ImgOf(url) == CHOOSE i \in Imgs : IMG[i].src = url
FetchOmit(url) == IMG[ImgOf(url)].fetchOmit
FetchInclude(url) == IMG[ImgOf(url)].fetchInclude

\* drawToCanvas: [ok |-> TRUE, v |-> data URL] when it resolves,
\* [ok |-> FALSE, taint |-> the canvas was tainted] when it rejects.
\* loaded: the image has fired its load event, or was complete.
drawToCanvas(i, loaded) ==
    LET w == Or(IMG[i].naturalWidth, IMG[i].offsetWidth)
        h == Or(IMG[i].naturalHeight, IMG[i].offsetHeight)
        dataUrl == IF w = 0 \/ h = 0 THEN EmptyDataUrl
                   ELSE DataUrl(Png, 22 + 92 + w + h, loaded)
    IN IF ~IMG[i].canvasCtx THEN [ok |-> FALSE, v |-> Null, taint |-> FALSE]
       ELSE IF IMG[i].tainted THEN [ok |-> FALSE, v |-> Null, taint |-> TRUE]
       ELSE IF StartsWithDataImage(dataUrl) THEN [ok |-> TRUE, v |-> dataUrl, taint |-> FALSE]
       ELSE [ok |-> FALSE, v |-> Null, taint |-> FALSE]

\* normalizeImageFormat: the MIME type of the blob it resolves to
normalizeImageFormat(resp) ==
    IF resp.type \in {Jpeg, Png} THEN resp.type
    ELSE IF resp.convert = "ok" THEN Png
    ELSE resp.type

\* fetchImageAsDataUrl: [success |-> TRUE, dataUrl |-> ...] when the promise
\* resolves, [success |-> FALSE, error |-> message] when it rejects
fetchImageAsDataUrl(url) ==
    LET first == FetchOmit(url)
        response == IF first.kind = "status" THEN FetchInclude(url) ELSE first
        result == readAsDataURL(normalizeImageFormat(response))
    IN IF first.kind = "throw" \/ response.kind = "throw"
       THEN [success |-> FALSE, dataUrl |-> Null, error |-> "Failed to fetch image: request"]
       ELSE IF response.kind # "ok"
       THEN [success |-> FALSE, dataUrl |-> Null, error |-> "Failed to fetch image: status"]
       ELSE IF ~response.reads
       THEN [success |-> FALSE, dataUrl |-> Null, error |-> "Failed to read blob"]
       ELSE IF MatchesDataImageBase64(result)
       THEN [success |-> TRUE, dataUrl |-> result, error |-> ""]
       ELSE [success |-> FALSE, dataUrl |-> Null, error |-> "Invalid data URL format"]

\* The loop of captureImageAsBase64 over imgElements (the images attached when
\* the message arrived) from image i on; taint records that a canvas of the
\* loop was tainted.  The loop stops at an image that is still loading, at
\* the first data URL, or at the fetch after the last image.
RECURSIVE CaptureLoop(_, _, _, _)
CaptureLoop(url, imgElements, i, taint) ==
    IF i > Len(IMG)
    THEN [url |-> url, phase |-> "fetching", imgElements |-> imgElements, img |-> NoImg,
          taint |-> taint, response |-> Null, via |-> "none", orphaned |-> FALSE]
    ELSE IF ~(i \in imgElements /\ (IMG[i].src = url \/ IMG[i].currentSrc = url))
    THEN CaptureLoop(url, imgElements, i + 1, taint)
    ELSE IF ~IMG[i].complete
    THEN [url |-> url, phase |-> "loading", imgElements |-> imgElements, img |-> i,
          taint |-> taint, response |-> Null, via |-> "none", orphaned |-> FALSE]
    ELSE LET drawn == drawToCanvas(i, TRUE)
         IN IF drawn.ok
            THEN [url |-> url, phase |-> "responded", imgElements |-> imgElements,
                  img |-> i, taint |-> taint, via |-> "canvas", orphaned |-> FALSE,
                  response |-> [success |-> TRUE, dataUrl |-> drawn.v, error |-> ""]]
            ELSE CaptureLoop(url, imgElements, i + 1, taint \/ drawn.taint)

\* onMessage for {type: 'CAPTURE_IMAGE', imageUrl: url}, no request pending.
\* orphaned records that an earlier request lost its load handlers.
ReceiveCaptureImage(url) ==
    /\ capture.phase \in {"idle", "responded"}
    /\ capture' = [CaptureLoop(url, dom, 1, FALSE) EXCEPT !.orphaned = capture.orphaned]
    /\ UNCHANGED <<detector, now, dom, seqs, emitted, clicks, lastClick>>

\* the image the capture waits for fires load (ok) or error
ImageLoadEvent(ok) ==
    /\ capture.phase = "loading"
    /\ LET drawn == drawToCanvas(capture.img, TRUE)
       IN capture' =
            IF ok /\ drawn.ok
            THEN [capture EXCEPT !.phase = "responded", !.via = "canvas",
                    !.response = [success |-> TRUE, dataUrl |-> drawn.v, error |-> ""]]
            ELSE [CaptureLoop(capture.url, capture.imgElements, capture.img + 1,
                              capture.taint \/ (ok /\ drawn.taint))
                    EXCEPT !.orphaned = capture.orphaned]
    /\ UNCHANGED <<detector, now, dom, seqs, emitted, clicks, lastClick>>

\* onMessage for {type: 'CAPTURE_IMAGE', imageUrl: url} while an earlier
\* request waits for the load event of an image: when the loop of the new
\* request stops at the same image, imageElementToDataUrl assigns img.onload
\* and img.onerror again, and the handlers of the earlier request, the only
\* holders of its resolve and reject, are gone.  capture goes on to follow
\* the new request.
ReceiveCaptureImageWhileLoading(url) ==
    /\ capture.phase = "loading"
    /\ LET new == CaptureLoop(url, dom, 1, FALSE)
       IN /\ new.phase = "loading" /\ new.img = capture.img
          /\ capture' = [new EXCEPT !.orphaned = TRUE]
    /\ UNCHANGED <<detector, now, dom, seqs, emitted, clicks, lastClick>>

\* the requests of fetchImageAsDataUrl and the conversions after them complete
CaptureFetchCompletes ==
    /\ capture.phase = "fetching"
    /\ capture' = [capture EXCEPT !.phase = "responded", !.via = "fetch",
                     !.response = fetchImageAsDataUrl(capture.url)]
    /\ UNCHANGED <<detector, now, dom, seqs, emitted, clicks, lastClick>>

(***************************************************************************)
(* The environment: the clock and the page's own scripts.                  *)
(***************************************************************************)
TimePasses ==
    /\ now + Tick <= MaxTime
    /\ now' = now + Tick
    /\ UNCHANGED <<detector, dom, seqs, emitted, clicks, lastClick, capture>>

\* a page script rebuilds the document as one of pages
MutatesWithin(pages) ==
    /\ \E page \in pages \ {dom} : dom' = page
    /\ UNCHANGED <<detector, now, seqs, emitted, clicks, lastClick, capture>>

PageMutates == MutatesWithin(CorePages)

AnyPageMutates == MutatesWithin(Pages)

Next ==
    \/ enable /\ UNCHANGED others
    \/ disable /\ UNCHANGED others
    \/ \E target \in Targets(dom) : Click(target) /\ UNCHANGED others
    \/ \E s \in seqs : TimerFires(s) /\ UNCHANGED others
    \/ \E s \in seqs : AcquisitionCompletes(s) /\ UNCHANGED others
    \/ TimePasses /\ UNCHANGED others
    \/ PageMutates /\ UNCHANGED others

Spec == Init /\ [][Next]_vars

\* The content script on a page that builds any of the documents of Pages.
\* The detector and the CAPTURE_IMAGE handler share no variable (both only
\* read the page), so a behaviour of the content script interleaves a
\* behaviour of each; here the script either serves capture requests or, with
\* no capture request received, observes one click.
NoCaptureYet == capture.phase = "idle"

NoClickYet == clicks = 0

NextPages ==
    \/ NoCaptureYet /\ enable /\ UNCHANGED others
    \/ NoCaptureYet /\ disable /\ UNCHANGED others
    \/ NoCaptureYet /\ \E target \in Targets(dom) : SingleClick(target) /\ UNCHANGED others
    \/ \E s \in seqs : TimerFires(s) /\ UNCHANGED others
    \/ \E s \in seqs : AcquisitionCompletes(s) /\ UNCHANGED others
    \/ NoClickYet /\ \E url \in Urls : ReceiveCaptureImage(url) /\ UNCHANGED others
    \/ NoClickYet /\ \E url \in Urls : ReceiveCaptureImageWhileLoading(url) /\ UNCHANGED others
    \/ NoClickYet /\ \E ok \in BOOLEAN : ImageLoadEvent(ok) /\ UNCHANGED others
    \/ NoClickYet /\ CaptureFetchCompletes /\ UNCHANGED others
    \/ TimePasses /\ UNCHANGED others
    \/ AnyPageMutates /\ UNCHANGED others

SpecPages == Init /\ [][NextPages]_vars

(***************************************************************************)
(* Properties.                                                             *)
(***************************************************************************)
\* the settle timer of sequence s fires in this step
Fired(s) ==
    /\ s \in seqs /\ s.phase = "timer"
    /\ \A t \in seqs' : t.id = s.id => t.phase # "timer"

\* what the timer callback of sequence s selected, as far as the step shows it:
\* <<image, provenance, tier>> of its pending acquisition or of its emission
SelectedBy(s) ==
    {<<t.img, t.source, t.tier>> : t \in {u \in seqs' : u.id = s.id}}
        \cup {<<e.img, e.source, e.tier>> : e \in {f \in emitted' : f.id = s.id}}

\* the dimensions the detector reads: natural, else rendered
ImgW(i) == IF IMG[i].naturalWidth # 0 THEN IMG[i].naturalWidth ELSE IMG[i].offsetWidth
ImgH(i) == IF IMG[i].naturalHeight # 0 THEN IMG[i].naturalHeight ELSE IMG[i].offsetHeight
Area(i) == ImgW(i) * ImgH(i)
SmallImage(i) == ImgW(i) < 150 \/ ImgH(i) < 150
Largest(S) == {i \in S : \A j \in S : Area(j) <= Area(i)}

\* C1: at most one detection sequence (a pending settle timer or a running
\* search/acquisition) is in flight at any time; a click that arrives while
\* one is in flight starts no second one.
C1_AtMostOneSequence == Cardinality(seqs) <= 1

\* C2: a detection whose settle timer was pending when disable() was called
\* captures nothing: it starts no acquisition and the callback never receives
\* a DetectedImage for that click.
C2_NoEmissionAfterDisable ==
    /\ \A e \in emitted : ~e.disabled
    /\ \A s \in seqs : s.phase = "fetch" => ~s.disabled

\* C3: a click that resolves to an image whose width or height is below 150
\* changes nothing in the detector and starts no detection sequence, and no
\* sequence or emission ever stems from such a click.
C3_SmallImageAbandoned ==
    /\ [](\A s \in seqs : ~SmallImage(s.clickedEl))
    /\ [](\A e \in emitted : ~SmallImage(e.clickedEl))
    /\ [][(clicks' # clicks /\ lastClick'.el # NoImg /\ SmallImage(lastClick'.el))
            => UNCHANGED <<detector, seqs, emitted>>]_vars

C3_Witness ==
    /\ isEnabled /\ lastClick.heard
    /\ lastClick.el # NoImg /\ SmallImage(lastClick.el)
    /\ seqs = {} /\ emitted = {}

\* C4: of two clicks less than 3000 ms apart that resolve to the same source
\* URL, only the first produces a DetectedImage: no emission follows an
\* emission for another click on the same URL less than 3000 ms away.
C4_OnlyFirstEmits ==
    [][\A e \in emitted : \A f \in emitted' :
          (f.id # e.id /\ f.clicked.src = e.clicked.src)
              => \/ f.clickTime - e.clickTime >= CAPTURE_COOLDOWN_MS
                 \/ e.clickTime - f.clickTime >= CAPTURE_COOLDOWN_MS]_vars

\* an element of the page that looks like a modal: fixed or absolute, z-index above 100
InOverlay(i) ==
    \E e \in IMG[i].anc :
        ELEM[e].position \in {"fixed", "absolute"} /\ ParseIntOr0(ELEM[e].zIndex) > 100
Rendered(i) == IMG[i].rect.width # 0 /\ IMG[i].rect.height # 0
SvgPlaceholder(i) == IMG[i].src[1] = "data:image/svg"
InViewport(i) ==
    /\ IMG[i].rect.bottom >= 0 /\ IMG[i].rect.top <= InnerHeight
    /\ IMG[i].rect.right >= 0 /\ IMG[i].rect.left <= InnerWidth
HasMinSize(i) == IMG[i].src # EmptyStr /\ ~SmallImage(i)

\* visible images inside an overlay (Tier A as the claim words it) ...
OverlayVisible(d) == {i \in d : InOverlay(i) /\ Rendered(i) /\ ~SvgPlaceholder(i)}
\* ... and those of them with a source URL and both dimensions at least 150
OverlayEligible(d) == {i \in OverlayVisible(d) : HasMinSize(i)}
\* rendered images that intersect the viewport (Tier B as the claim words it) ...
ViewportVisible(d) == {i \in d : Rendered(i) /\ InViewport(i)}
\* ... and those of them that are no SVG placeholder and have the minimum size
ViewportEligible(d) == {i \in ViewportVisible(d) : HasMinSize(i) /\ ~SvgPlaceholder(i)}
ClickedArea(s) == s.clicked.width * s.clicked.height
\* the largest images of S, if they are larger than the image sequence s clicked
LargerThanClicked(S, s) == {i \in Largest(S) : Area(i) > ClickedArea(s)}

\* an acquisition that completes emits the image its timer callback selected
EmitsSelected ==
    \A t \in seqs : \A e \in emitted' :
        (t.phase = "fetch" /\ e.id = t.id)
            => (e.img = t.img /\ e.source = t.source /\ e.tier = t.tier)

\* C5 as stated: when the settle delay elapses and an overlay holds visible
\* images, the image selected is one of the largest of all of them, with
\* provenance modal.
C5_Original ==
    [][\A s \in seqs : (Fired(s) /\ OverlayVisible(dom) # {})
          => \A r \in SelectedBy(s) :
                r[1] \in Largest(OverlayVisible(dom)) /\ r[2] = "modal"]_vars

\* C5 amended: when the settle delay elapses and an overlay holds visible
\* images with a source URL and both dimensions at least 150, the image
\* selected is one of the largest of these, with provenance modal (Tier A),
\* whatever was clicked; Tier A selects nothing else, and a completing
\* acquisition emits the image selected.
C5_TierA ==
    [][/\ \A s \in seqs : Fired(s)
            => \A r \in SelectedBy(s) :
                  /\ OverlayEligible(dom) # {}
                       => /\ r[1] \in Largest(OverlayEligible(dom))
                          /\ r[2] = "modal" /\ r[3] = "A"
                  /\ r[3] = "A" => r[1] \in OverlayEligible(dom)
       /\ EmitsSelected]_vars

C5_Witness ==
    \E e \in emitted :
        /\ e.tier = "A" /\ e.source = "modal" /\ e.img = 3 /\ e.clickedEl = 2
        /\ e.dataUrl.mime[1] = "image/"

\* C6 as stated: when no overlay image is found, the image selected is one of
\* the largest rendered images that intersect the viewport, provided its area
\* exceeds the clicked image's, with provenance modal.
C6_Original ==
    [][\A s \in seqs :
          (Fired(s) /\ OverlayVisible(dom) = {}
                    /\ LargerThanClicked(ViewportVisible(dom), s) # {})
          => \A r \in SelectedBy(s) :
                r[1] \in LargerThanClicked(ViewportVisible(dom), s) /\ r[2] = "modal"]_vars

\* C6 amended: when Tier A finds nothing, the image selected is one of the
\* largest rendered images intersecting the viewport that have a source URL,
\* are no inline SVG placeholder and have both dimensions at least 150,
\* provided its area strictly exceeds the clicked image's, with provenance
\* modal (Tier B); Tier B selects nothing else.
C6_TierB ==
    [][/\ \A s \in seqs : Fired(s)
            => \A r \in SelectedBy(s) :
                  /\ (OverlayEligible(dom) = {}
                        /\ LargerThanClicked(ViewportEligible(dom), s) # {})
                       => /\ r[1] \in LargerThanClicked(ViewportEligible(dom), s)
                          /\ r[2] = "modal" /\ r[3] = "B"
                  /\ r[3] = "B"
                       => /\ OverlayEligible(dom) = {}
                          /\ r[1] \in LargerThanClicked(ViewportEligible(dom), s)
       /\ EmitsSelected]_vars

C6_Witness ==
    \E e \in emitted :
        /\ e.tier = "B" /\ e.source = "modal" /\ e.img = 5 /\ e.clickedEl = 2
        /\ e.dataUrl.mime[1] = "image/"

\* the images that carry the source URL of the image sequence s clicked
CarriesClickedSrc(d, s) ==
    {i \in d : IMG[i].src = s.clicked.src \/ IMG[i].currentSrc = s.clicked.src}

Fetchable(resp) == resp.kind = "ok" /\ resp.type[1] = "image/" /\ resp.reads

\* C8: a tainted canvas aborts only the canvas tier.  Detector: a candidate
\* whose canvas is tainted goes on to the fetch, and when the URL is fetchable
\* the acquisition ends with an emission of the fetched image.  Context menu:
\* a request that met a tainted canvas and whose URL is fetchable is answered
\* with success and an image data URL.
C8_TaintFallsBackToFetch ==
    /\ [][\A s \in seqs :
            LET c == Candidate(dom, s.clicked)
            IN (Fired(s) /\ c.img # NoImg /\ ~IsDuplicate(c.img)
                   /\ IMG[c.img].canvasCtx /\ IMG[c.img].tainted)
                 => \E t \in seqs' : t.id = s.id /\ t.phase = "fetch" /\ t.img = c.img]_vars
    /\ [][\A t \in seqs :
            (t.phase = "fetch" /\ (\A u \in seqs' : u.id # t.id)
                  /\ Fetchable(IMG[t.img].fetchOmit))
              => \E e \in emitted' :
                    e.id = t.id /\ e.via = "fetch" /\ e.dataUrl.mime[1] = "image/"]_vars
    /\ [](capture.phase = "responded" /\ capture.taint
              /\ Fetchable(FetchOmit(capture.url))
            => capture.response.success /\ capture.response.dataUrl.mime[1] = "image/")

C8_Witness ==
    \E e \in emitted : e.via = "fetch" /\ IMG[e.img].tainted /\ e.dataUrl.mime[1] = "image/"

\* C9: enable() is idempotent: on an enabled detector it changes nothing, the
\* document holds exactly one click listener while the detector is enabled,
\* and one click starts at most one detection sequence.
C9_EnableIdempotent ==
    /\ [](isEnabled => listeners = 1)
    /\ [][(isEnabled /\ enable) => UNCHANGED vars]_vars
    /\ [][clicks' # clicks => Cardinality(seqs' \ seqs) <= 1]_vars

C9_Witness == isEnabled /\ listeners = 1 /\ lastClick.heard /\ seqs # {}

\* C10: disable() is idempotent and stops listening: while the detector is
\* disabled the busy flag is false and no listener is registered, no click
\* changes the detector or schedules a settle timer, and disable() on a
\* disabled detector changes nothing.
C10_DisableStopsListening ==
    /\ [](~isEnabled => (~isProcessing /\ listeners = 0))
    /\ [][(~isEnabled /\ clicks' # clicks) => UNCHANGED <<detector, seqs, emitted>>]_vars
    /\ [][(~isEnabled /\ disable) => UNCHANGED vars]_vars

C10_Witness ==
    /\ ~isEnabled /\ ~isProcessing /\ seqs # {}
    /\ clicks > 0 /\ ~lastClick.heard /\ lastClick.el = 2

(***************************************************************************)
(* A shop page whose images end a detection in every way: the thumbnail    *)
(* (canvas), the lightbox image (fetch), the partner image (the fetch      *)
(* fails) and a document without images (no candidate).  Scripts of the    *)
(* page also dispatch clicks on the document itself.                       *)
(***************************************************************************)
OutcomePages == {{2}, {2, 3, 4}, {7}, {}}

NextOutcomes ==
    \/ enable /\ UNCHANGED others
    \/ disable /\ UNCHANGED others
    \/ \E target \in Targets(dom) : Click(target) /\ UNCHANGED others
    \/ DocumentClick /\ UNCHANGED others
    \/ \E s \in seqs : TimerFires(s) /\ UNCHANGED others
    \/ \E s \in seqs : AcquisitionCompletes(s) /\ UNCHANGED others
    \/ TimePasses /\ UNCHANGED others
    \/ MutatesWithin(OutcomePages) /\ UNCHANGED others

SpecOutcomes == Init /\ [][NextOutcomes]_vars

\* sequence s ends in this step
Terminated(s) == s \in seqs /\ \A t \in seqs' : t.id # s.id
\* the callback runs in this step for sequence s
Invoked(s) == \E e \in emitted' : e.id = s.id /\ e \notin emitted
\* the acquisition of sequence s, which ends in this step, delivers a data URL
Succeeds(s) ==
    IF s.phase = "timer"
    THEN LET c == Candidate(dom, s.clicked)
         IN /\ c.img # NoImg /\ ~IsDuplicate(c.img)
            /\ CanvasMethod(c.img).k = "return" /\ CanvasMethod(c.img).v # Null
    ELSE FetchMethod(s.img) # Null

\* C11: the callback is invoked exactly once per detection sequence whose
\* acquisition succeeds and never for a sequence that is abandoned,
\* suppressed as a duplicate or whose acquisition fails: the callback runs
\* only in the step that ends a sequence, once, with one DetectedImage
\* carrying the data URL of that sequence, and a sequence that has emitted
\* is over.
C11_CallbackOncePerSuccess ==
    /\ [][/\ \A s \in seqs : Invoked(s) <=> (Terminated(s) /\ Succeeds(s))
          /\ emitted' # emitted
               => /\ Cardinality(emitted') = 1
                  /\ \E s \in seqs : Invoked(s)
                  /\ \A e \in emitted' : e.dataUrl # Null /\ e.dataUrl.mime[1] = "image/"]_vars
    /\ [](\A e \in emitted : \A s \in seqs : s.id # e.id)
    /\ [][\A s \in seqs' : (\A t \in seqs : t.id # s.id) => s.id = clicks']_vars

C11_Witness ==
    /\ clicks = 2 /\ seqs = {}
    /\ \E e \in emitted : e.id = 2 /\ e.img = 3 /\ e.via = "fetch"

\* C12: the Detector never throws: no exception leaves the click handler or
\* a detection sequence uncaught.
C12_NeverThrows == ~lastClick.threw

\* the image imageToDataUrl is called with by sequence s in this step
Acquired(s) == IF s.phase = "timer" THEN Candidate(dom, s.clicked).img ELSE s.img

\* C13: the Acquisition Pipeline fails only after all tiers were tried: a
\* sequence whose candidate is no duplicate ends without a DetectedImage only
\* when the network refetch of the candidate fails too, and a context-menu
\* capture is answered with a failure only by the network refetch.
C13_AllTiersTried ==
    /\ [][\A s \in seqs :
            (/\ Terminated(s) /\ ~Invoked(s)
             /\ Acquired(s) # NoImg
             /\ s.phase = "timer" => ~IsDuplicate(Acquired(s)))
              => FetchMethod(Acquired(s)) = Null]_vars
    /\ [](capture.phase = "responded" /\ ~capture.response.success
            => capture.via = "fetch")

\* C14: every string the Acquisition Pipeline returns as a success, to the
\* Detector's callback or as the answer of the context-menu capture, begins
\* with data:image/ ; a string that does not is never returned as a success.
C14_SuccessIsImageDataUrl ==
    /\ \A e \in emitted : e.dataUrl # Null /\ e.dataUrl.mime[1] = "image/"
    /\ (capture.phase = "responded" /\ capture.response.success)
          => /\ capture.response.dataUrl # Null
             /\ capture.response.dataUrl.mime[1] = "image/"

C14_Witness ==
    /\ capture.phase = "responded" /\ capture.url = <<"https:", "m">>
    /\ capture.via = "fetch"
    /\ ~capture.response.success /\ capture.response.error = "Invalid data URL format"

\* C15: every CAPTURE_IMAGE message is answered, once, with
\* {success: true, dataUrl} or {success: false, error} and a message: no
\* request is left without a handler that can answer it, and an answer has
\* one of the two shapes.
C15_CaptureAlwaysAnswered ==
    /\ ~capture.orphaned
    /\ capture.phase = "responded"
         => \/ capture.response.success /\ capture.response.dataUrl # Null
            \/ ~capture.response.success /\ capture.response.error # ""

\* C16: a click that arrives less than 3000 ms after the last successful
\* capture is abandoned whatever image it resolves to: it schedules no settle
\* timer, leaves the busy flag and the cooldown anchor unchanged and leads to
\* no emission.
C16_CooldownAbandonsClick ==
    [][(clicks' # clicks /\ lastCaptureTime # 0
          /\ now - lastCaptureTime < CAPTURE_COOLDOWN_MS)
        => UNCHANGED <<detector, seqs, emitted>>]_vars

C16_Witness ==
    /\ isEnabled /\ ~isProcessing /\ seqs = {}
    /\ clicks = 2 /\ lastClick.heard /\ lastClick.cooling /\ lastClick.el = 2
    /\ \E e \in emitted : e.id = 1 /\ ~e.disabled

\* C17: the cooldown anchor changes only together with a callback invocation,
\* where it becomes the captured image's source URL and the time of the
\* capture; a sequence that ends without emission (acquisition failed,
\* duplicate suppressed, no candidate) leaves both fields unchanged, and so
\* does every other step.
C17_AnchorOnlyOnSuccess ==
    [][/\ <<lastCapturedSrc, lastCaptureTime>>' # <<lastCapturedSrc, lastCaptureTime>>
            => emitted' # emitted
       /\ emitted' # emitted
            => \A e \in emitted' :
                  /\ lastCapturedSrc' = OrStr(IMG[e.img].currentSrc, IMG[e.img].src)
                  /\ lastCaptureTime' = now
       /\ \A s \in seqs : (Terminated(s) /\ ~Invoked(s))
            => UNCHANGED <<lastCapturedSrc, lastCaptureTime>>]_vars

C17_Witness ==
    /\ seqs = {} /\ lastCapturedSrc = <<"https:", "b">> /\ lastCaptureTime = now
    /\ \E e \in emitted : e.id = 2 /\ e.img = 3 /\ e.clickTime < now

\* the candidate of the first of the tiers A, B, C that yields one on document d
FirstTier(d, s) ==
    LET a == findImageInModal(d)
        b == findLargestVisibleImage(d, s.clicked)
        c == findImageBySrc(d, s.clicked.src)
    IN IF a # NoImg THEN <<a, "modal", "A">>
       ELSE IF b # NoImg THEN <<b, "modal", "B">>
       ELSE <<c, "direct", "C">>

\* C18: when the settle timer of a sequence fires, the tiers are consulted in
\* the order A, B, C on the document of that moment and the pipeline is
\* invoked on the candidate of the first tier that yields one and on no
\* other; a sequence whose acquisition fails or is suppressed ends without
\* emission, no lower tier is tried and no sequence is started again: a
\* sequence only moves from its timer to its acquisition and then ends, and
\* new sequences come from clicks only.
C18_FirstTierOnly ==
    [][/\ \A s \in seqs : Fired(s)
            => /\ SelectedBy(s) \subseteq {FirstTier(dom, s)}
               /\ (FirstTier(dom, s)[1] = NoImg \/ IsDuplicate(FirstTier(dom, s)[1]))
                     => (Terminated(s) /\ ~Invoked(s))
       /\ EmitsSelected
       /\ \A s \in seqs : \A t \in seqs' :
            t.id = s.id
              => \/ t = s
                 \/ t = [s EXCEPT !.disabled = TRUE]
                 \/ /\ s.phase = "timer" /\ t.phase = "fetch"
                    /\ <<t.img, t.source, t.tier>> = FirstTier(dom, s)
       /\ \A t \in seqs' : (\A s \in seqs : s.id # t.id)
            => (clicks' = clicks + 1 /\ t.id = clicks' /\ t.phase = "timer")]_vars

C18_Witness ==
    /\ dom = {2, 7} /\ emitted = {}
    /\ \E s \in seqs : s.phase = "fetch" /\ s.img = 7 /\ s.tier = "B" /\ s.clickedEl = 2

\* C19: the busy flag is true exactly when a detection sequence is awaiting
\* its settle delay or searching / acquiring.
C19_BusyFlagMirrorsSequence == isProcessing <=> (seqs # {})

(***************************************************************************)
(* The detector with its scheduling: the clock advances, a settle timer    *)
(* that is due fires, and the fetch, decode and encode operations of an    *)
(* acquisition complete.  The clock runs past MaxTime for as long as a     *)
(* settle timer waits for it.                                              *)
(***************************************************************************)
TimePassesLive ==
    /\ \/ now + Tick <= MaxTime
       \/ \E s \in seqs : s.phase = "timer" /\ now < s.due
    /\ now' = now + Tick
    /\ UNCHANGED <<detector, dom, seqs, emitted, clicks, lastClick, capture>>

NextLive ==
    \/ enable /\ UNCHANGED others
    \/ disable /\ UNCHANGED others
    \/ \E target \in Targets(dom) : Click(target) /\ UNCHANGED others
    \/ \E s \in seqs : TimerFires(s) /\ UNCHANGED others
    \/ \E s \in seqs : AcquisitionCompletes(s) /\ UNCHANGED others
    \/ TimePassesLive /\ UNCHANGED others
    \/ PageMutates /\ UNCHANGED others

\* a settle timer is due: TimerFires is enabled for some sequence
TimerDue == \E s \in seqs : s.phase = "timer" /\ now >= s.due

\* weak fairness of the settle timers, WF_vars(\E s \in seqs : TimerFires(s)),
\* written with TimerDue, the enabling condition of that action
TimerFairness ==
    \/ []<>(~TimerDue)
    \/ []<><<\E s \in seqs : TimerFires(s)>>_vars

SpecLive ==
    /\ Init /\ [][NextLive]_vars
    /\ WF_vars(TimePassesLive /\ UNCHANGED others)
    /\ TimerFairness
    /\ WF_vars(\E s \in seqs : AcquisitionCompletes(s) /\ UNCHANGED others)

SeqIds == 1..MaxClicks

\* C20: every detection sequence eventually ends; the step that ends it
\* emits at most one DetectedImage and leaves the busy flag false; and a
\* qualifying click outside the cooldown that finds the detector enabled and
\* not busy starts a sequence again.
C20_SequenceTerminates ==
    /\ \A id \in SeqIds : (\E s \in seqs : s.id = id) ~> (\A s \in seqs : s.id # id)
    /\ [][\A s \in seqs : Terminated(s)
            => (~isProcessing' /\ Cardinality(emitted' \ emitted) <= 1)]_vars
    /\ [][(/\ clicks' # clicks /\ listeners # 0 /\ ~isProcessing
           /\ lastClick'.el # NoImg /\ ~SmallImage(lastClick'.el)
           /\ now - lastCaptureTime >= CAPTURE_COOLDOWN_MS)
          => \E t \in seqs' : t.id = clicks' /\ t.phase = "timer" /\ isProcessing']_vars

C20_Witness ==
    /\ \E e \in emitted : e.id = 1 /\ now - lastCaptureTime >= CAPTURE_COOLDOWN_MS
    /\ \E s \in seqs : s.id = 2 /\ s.phase = "timer" /\ s.clickTime = now
    /\ isProcessing

\* C21: the network refetch requests the URL in cross-origin mode without
\* credentials first and, whenever that attempt does not succeed, again with
\* credentials; it fails only when the final response is not successful or
\* is no image.  For the Detector: a sequence whose fetch ends and whose
\* final response (with credentials after an unsuccessful first attempt) is a
\* successful image response delivers a DetectedImage.  For the context-menu
\* capture: a failure answered by the refetch has such a final response.
C21_RefetchWithCredentials ==
    /\ [][\A s \in seqs :
            (/\ s.phase = "fetch" /\ Terminated(s)
             /\ LET first == IMG[s.img].fetchOmit
                    final == IF first.kind # "ok" THEN IMG[s.img].fetchInclude ELSE first
                IN final.kind = "ok" /\ StartsWithImage(final.type) /\ final.reads)
              => Invoked(s)]_vars
    /\ [](capture.phase = "responded" /\ capture.via = "fetch" /\ ~capture.response.success
            => LET first == FetchOmit(capture.url)
                   final == IF first.kind # "ok" THEN FetchInclude(capture.url) ELSE first
               IN final.kind # "ok" \/ ~StartsWithImage(final.type) \/ ~final.reads)

\* C22: format normalization never fails a capture: when decoding or
\* re-encoding the fetched image fails (decode error, no 2D context, null
\* blob), the fetched bytes go to the final encoding step unchanged and the
\* pipeline returns a result.  A Detector sequence whose fetch returned an
\* image that cannot be converted delivers a DetectedImage whose data URL
\* carries the type of the fetched bytes, and so does the answer of the
\* context-menu capture.
C22_NormalizationPassesThrough ==
    /\ [][\A s \in seqs :
            (/\ s.phase = "fetch" /\ Terminated(s)
             /\ IMG[s.img].fetchOmit.kind = "ok"
             /\ StartsWithImage(IMG[s.img].fetchOmit.type)
             /\ IMG[s.img].fetchOmit.reads
             /\ IMG[s.img].fetchOmit.type # Png
             /\ IMG[s.img].fetchOmit.convert # "ok")
              => /\ Invoked(s)
                 /\ \A e \in emitted' : e.dataUrl.mime = IMG[s.img].fetchOmit.type]_vars
    /\ []((capture.phase = "responded" /\ capture.via = "fetch")
            => \A r \in {FetchOmit(capture.url)} :
                 (/\ r.kind = "ok" /\ StartsWithImage(r.type) /\ r.reads
                  /\ r.type \notin {Jpeg, Png} /\ r.convert # "ok")
                   => /\ capture.response.success
                      /\ capture.response.dataUrl.mime = r.type)

C22_Witness ==
    /\ \E e \in emitted : e.via = "fetch" /\ e.img = 13 /\ e.dataUrl.mime = Webp
    /\ seqs = {}

\* C23: an image element that is not loaded yet is not drawn to the canvas
\* before its load event: every data URL the canvas tier delivers, to the
\* Detector's callback or as the answer of the context-menu capture, was
\* drawn from a loaded image.
C23_DrawsOnlyAfterLoad ==
    /\ \A e \in emitted : e.via = "canvas" => (IMG[e.img].complete /\ e.dataUrl.drawn)
    /\ (capture.phase = "responded" /\ capture.via = "canvas")
          => capture.response.dataUrl.drawn

\* C24: a click resolves the clicked image in a fixed priority order: the
\* target itself if it is an <img>, else the first <img> descendant of the
\* target, else the first <img> descendant of the nearest ancestor matching
\* the container selectors; a later rule is used only when every earlier one
\* finds no image, and when no rule finds one the click is abandoned.
C24_ClickedImagePriority ==
    [][clicks' # clicks =>
         LET t == lastClick'.target
             isImg == t[1] = "img"
             inTarget == IF isImg THEN NoImg ELSE querySelectorImg(dom, t[2])
             ancestor == IF isImg THEN IMG[t[2]].closest ELSE ELEM[t[2]].closest
             inAncestor == IF ancestor = 0 THEN NoImg ELSE querySelectorImg(dom, ancestor)
             resolved == IF isImg THEN t[2]
                         ELSE IF inTarget # NoImg THEN inTarget
                         ELSE inAncestor
         IN /\ lastClick'.el = resolved
            /\ resolved = NoImg => (seqs' = seqs /\ isProcessing' = isProcessing)
            /\ \A s \in seqs' \ seqs : s.clickedEl = resolved]_vars

\* C25: every DetectedImage passed to the callback has width and height of
\* at least the minimum size (150 px), whichever tier selected it and however
\* the page changed during the settle delay.
C25_EmittedHasMinSize ==
    \A e \in emitted : e.width >= MIN_IMAGE_SIZE /\ e.height >= MIN_IMAGE_SIZE

(***************************************************************************)
(* Content script: Auto Mode (start-up, AUTO_MODE_CHANGED, the detector's  *)
(* callback).                                                              *)
(***************************************************************************)
\* changes of the auto-mode setting
MaxToggles == 3
\* invocations of the detector's callback
MaxDetections == 3

page == <<isEnabled, isProcessing, lastCapturedSrc, lastCaptureTime, listeners,
          now, dom, seqs, emitted, clicks, lastClick, capture>>

\* initializeAutoMode on the state sc of the content script
initializeAutoMode(sc) ==
    IF sc.detector # 0 THEN sc
    ELSE [sc EXCEPT !.created = @ + 1, !.detector = sc.created + 1,
                    !.enabled = @ \cup {sc.created + 1}]

\* handleAutoModeChange on the state sc of the content script
handleAutoModeChange(sc, enabled) ==
    IF enabled THEN initializeAutoMode(sc)
    ELSE [sc EXCEPT !.enabled = @ \ {sc.detector}, !.detector = 0,
                    !.isProcessing = FALSE]

\* The auto-mode setting changes (the side panel's switch, or the background
\* script switching it off): the new value is stored and AUTO_MODE_CHANGED
\* is sent to every tab.
AutoModeChanges(enabled) ==
    /\ script.toggles < MaxToggles
    /\ enabled # storage.autoMode
    /\ storage' = [storage EXCEPT !.autoMode = enabled]
    /\ script' = [script EXCEPT !.inbox = Append(@, enabled), !.toggles = @ + 1]
    /\ UNCHANGED <<page, background, sidepanel>>

\* browser.storage.local.get of getAutoModeEnabled returns
StorageReadReturns ==
    /\ script.startup = "reading"
    /\ script' = [script EXCEPT !.startup = "read", !.autoModeEnabled = storage.autoMode]
    /\ UNCHANGED <<page, storage, background, sidepanel>>

\* main() resumes after await getAutoModeEnabled()
MainResumes ==
    /\ script.startup = "read"
    /\ script' = [(IF script.autoModeEnabled THEN initializeAutoMode(script) ELSE script)
                    EXCEPT !.startup = "done"]
    /\ UNCHANGED <<page, storage, background, sidepanel>>

\* onMessage for the AUTO_MODE_CHANGED message at the head of the inbox
ReceiveAutoModeChanged ==
    /\ script.inbox # <<>>
    /\ script' = [handleAutoModeChange(script, Head(script.inbox))
                    EXCEPT !.inbox = Tail(script.inbox)]
    /\ UNCHANGED <<page, storage, background, sidepanel>>

\* An enabled detector calls handleEnlargedImageDetected with a DetectedImage
\* (its data URL passes the format test: the detector delivers only base64
\* data URLs of an image type).  Up to the await of sendMessage.
handleEnlargedImageDetected ==
    /\ script.enabled # {}
    /\ script.detected < MaxDetections
    /\ script' = IF script.isProcessing
                 THEN [script EXCEPT !.detected = @ + 1]
                 ELSE [script EXCEPT !.detected = @ + 1, !.isProcessing = TRUE,
                                     !.outstanding = @ + 1, !.sent = @ + 1]
    /\ UNCHANGED <<page, storage, background, sidepanel>>

\* sendMessage settles (a response or a rejection): handleEnlargedImageDetected
\* resumes and its finally block schedules the release of isProcessing
BackgroundResponds ==
    /\ script.outstanding > 0
    /\ script' = [script EXCEPT !.outstanding = @ - 1, !.timers = @ + 1]
    /\ UNCHANGED <<page, storage, background, sidepanel>>

\* a 1000 ms timer of handleEnlargedImageDetected fires
ReleaseTimerFires ==
    /\ script.timers > 0
    /\ script' = [script EXCEPT !.timers = @ - 1, !.isProcessing = FALSE]
    /\ UNCHANGED <<page, storage, background, sidepanel>>

NextAuto ==
    \/ \E enabled \in BOOLEAN : AutoModeChanges(enabled)
    \/ StorageReadReturns
    \/ MainResumes
    \/ ReceiveAutoModeChanged
    \/ handleEnlargedImageDetected
    \/ BackgroundResponds
    \/ ReleaseTimerFires

SpecAuto == Init /\ [][NextAuto]_vars

\* C26: in one content script at most one AUTO_TRYON request is outstanding
\* at a time, and a detected image that arrives while a request is outstanding
\* or within 1000 ms after it completed (its release timer is pending) sends
\* no message.
C26_OneRequestOutstanding ==
    /\ [](script.outstanding <= 1)
    /\ [][(/\ script'.detected # script.detected
           /\ script.outstanding > 0 \/ script.timers > 0)
            => script'.sent = script.sent]_vars

\* C27: once start-up and all received AUTO_MODE_CHANGED messages have been
\* handled, a detector exists and is enabled if and only if the most recent
\* auto-mode value is enabled; and never are two detector instances enabled
\* together.
C27_DetectorFollowsAutoMode ==
    /\ (script.startup = "done" /\ script.inbox = <<>>)
          => ((script.detector # 0 /\ script.detector \in script.enabled)
                <=> storage.autoMode)
    /\ Cardinality(script.enabled) <= 1

(***************************************************************************)
(* Background script: handleAutoTryOn and the result popup.                *)
(***************************************************************************)
\* AUTO_TRYON and RETRY_AUTO_TRYON messages
MaxRequests == 2
\* the tabs browser.tabs.query({}) returns
Tabs == {1, 2}

NoResponse == [success |-> FALSE, error |-> "pending"]

\* updatePopupState(state) on the state bg of the background script: the
\* RESULT_UPDATE message reaches the popup page when the window of
\* resultPopupWindowId is open and its page listens
updatePopupState(bg, state) ==
    [bg EXCEPT !.currentPopupState = state,
               !.shown = IF /\ bg.resultPopupWindowId # 0
                            /\ bg.window = bg.resultPopupWindowId
                            /\ bg.loaded
                         THEN state ELSE @]

\* the call r of handleAutoTryOn moves on to r2
Step(bg, r, r2) == [bg EXCEPT !.reqs = (@ \ {r}) \cup {r2}]

\* onMessage for AUTO_TRYON or RETRY_AUTO_TRYON: handleAutoTryOn is called
\* and awaits the storage read
ReceiveAutoTryOn(type) ==
    /\ background.requested < MaxRequests
    /\ background' =
         [background EXCEPT
            !.requested = @ + 1,
            !.reqs = @ \cup {[id |-> background.requested + 1, type |-> type,
                              pc |-> "start", noPhoto |-> FALSE, flagOff |-> FALSE,
                              sentTo |-> {}, popup |-> FALSE, generated |-> FALSE,
                              response |-> NoResponse]}]
    /\ UNCHANGED <<page, storage, script, sidepanel>>

\* handleAutoTryOn that does not test for the user photo
ReadsSettings_NoPhotoTest(r) ==
    /\ r \in background.reqs /\ r.pc = "start"
    /\ background' =
         IF ~storage.apiKey
         THEN Step(background, r,
                   [r EXCEPT !.pc = "done",
                             !.response = [success |-> FALSE, error |-> "No API key set"]])
         ELSE [Step(background, r, [r EXCEPT !.pc = "popup"])
                 EXCEPT !.currentPopupState = PopupState("loading", r.id)]
    /\ UNCHANGED <<page, storage, script, sidepanel>>

\* handleAutoTryOn resumes with 'try-on-storage': without a user photo it goes
\* on to switch auto mode off, without an API key it returns, else it calls
\* showResultPopup, which sets currentPopupState and awaits the window
ReadsSettings(r) ==
    /\ r \in background.reqs /\ r.pc = "start"
    /\ background' =
         IF ~storage.userImage
         THEN Step(background, r, [r EXCEPT !.pc = "noPhoto", !.noPhoto = TRUE])
         ELSE IF ~storage.apiKey
         THEN Step(background, r,
                   [r EXCEPT !.pc = "done",
                             !.response = [success |-> FALSE, error |-> "No API key set"]])
         ELSE [Step(background, r, [r EXCEPT !.pc = "popup"])
                 EXCEPT !.currentPopupState = PopupState("loading", r.id)]
    /\ UNCHANGED <<page, storage, script, sidepanel>>

\* setAutoModeEnabled(false) of the branch without a user photo
DisablesAutoMode(r) ==
    /\ r \in background.reqs /\ r.pc = "noPhoto"
    /\ storage' = [storage EXCEPT !.autoMode = FALSE]
    /\ background' = Step(background, r, [r EXCEPT !.pc = "broadcast", !.flagOff = TRUE])
    /\ UNCHANGED <<page, script, sidepanel>>

\* broadcastAutoModeChange(false), the notification and the return of the
\* branch without a user photo
Broadcasts(r) ==
    /\ r \in background.reqs /\ r.pc = "broadcast"
    /\ background' =
         Step(background, r,
              [r EXCEPT !.pc = "done", !.sentTo = Tabs,
                        !.response = [success |-> FALSE, error |-> "No user photo set"]])
    /\ UNCHANGED <<page, storage, script, sidepanel>>

\* showResultPopup resumes: the window of resultPopupWindowId exists and is
\* updated, or a window is created and the push of the state is scheduled
\* 500 ms later.  handleAutoTryOn then parses the images (parses: both parse)
\* and calls generateTryOn.
ShowsPopup(r, parses) ==
    /\ r \in background.reqs /\ r.pc = "popup"
    /\ LET loading == PopupState("loading", r.id)
           exists == /\ background.resultPopupWindowId # 0
                     /\ background.window = background.resultPopupWindowId
           shown == IF exists THEN updatePopupState(background, loading)
                    ELSE [background EXCEPT
                            !.windows = @ + 1, !.window = background.windows + 1,
                            !.resultPopupWindowId = background.windows + 1,
                            !.loaded = FALSE, !.timers = @ \cup {loading}]
       IN background' =
            IF parses
            THEN Step(shown, r, [r EXCEPT !.pc = "generate", !.popup = TRUE,
                                          !.generated = TRUE])
            ELSE Step(updatePopupState(shown, PopupState("error", r.id)), r,
                      [r EXCEPT !.pc = "done", !.popup = TRUE,
                                !.response = [success |-> FALSE,
                                              error |-> "Invalid image format"]])
    /\ UNCHANGED <<page, storage, script, sidepanel>>

\* saveToHistoryAndCloud: the result is appended to pendingAutoModeResults,
\* of which the last 10 are kept
AppendPending(list, id) ==
    LET all == Append(list, [id |-> id, processed |-> FALSE])
    IN IF Len(all) > 10 THEN Tail(all) ELSE all

\* generateTryOn settles: on success the result is saved and the popup
\* updated with success, else with the error; handleAutoTryOn returns
GenerationCompletes(r, success) ==
    /\ r \in background.reqs /\ r.pc = "generate"
    /\ IF success
       THEN /\ storage' = [storage EXCEPT !.pendingAutoModeResults = AppendPending(@, r.id)]
            /\ background' =
                 Step(updatePopupState(background, PopupState("success", r.id)), r,
                      [r EXCEPT !.pc = "done",
                                !.response = [success |-> TRUE, error |-> ""]])
       ELSE /\ UNCHANGED storage
            /\ background' =
                 Step(updatePopupState(background, PopupState("error", r.id)), r,
                      [r EXCEPT !.pc = "done",
                                !.response = [success |-> FALSE,
                                              error |-> "Failed to generate try-on"]])
    /\ UNCHANGED <<page, script, sidepanel>>

\* a 500 ms timer of showResultPopup fires: updatePopupState(state)
PushTimerFires(state) ==
    /\ state \in background.timers
    /\ background' = [updatePopupState(background, state) EXCEPT !.timers = @ \ {state}]
    /\ UNCHANGED <<page, storage, script, sidepanel>>

\* the popup page registers its listener and asks for GET_POPUP_STATE
PopupLoads ==
    /\ background.window # 0 /\ ~background.loaded
    /\ background' =
         [background EXCEPT
            !.loaded = TRUE,
            !.shown = IF background.currentPopupState.state # "none"
                      THEN background.currentPopupState ELSE @]
    /\ UNCHANGED <<page, storage, script, sidepanel>>

\* the user closes the popup window: windows.onRemoved
PopupCloses ==
    /\ background.window # 0
    /\ background' =
         [background EXCEPT
            !.window = 0, !.loaded = FALSE, !.shown = NoPopupState,
            !.resultPopupWindowId =
                IF background.window = background.resultPopupWindowId THEN 0 ELSE @,
            !.currentPopupState =
                IF background.window = background.resultPopupWindowId
                THEN NoPopupState ELSE @]
    /\ UNCHANGED <<page, storage, script, sidepanel>>

\* the user sets or removes the photo or the API key in the side panel
SettingsChange ==
    /\ \/ storage' = [storage EXCEPT !.userImage = ~@]
       \/ storage' = [storage EXCEPT !.apiKey = ~@]
    /\ UNCHANGED <<page, script, background, sidepanel>>

NextPopup ==
    \/ \E type \in {"AUTO_TRYON", "RETRY_AUTO_TRYON"} : ReceiveAutoTryOn(type)
    \/ \E r \in background.reqs : ReadsSettings(r)
    \/ \E r \in background.reqs : DisablesAutoMode(r)
    \/ \E r \in background.reqs : Broadcasts(r)
    \/ \E r \in background.reqs : \E parses \in BOOLEAN : ShowsPopup(r, parses)
    \/ \E r \in background.reqs : \E success \in BOOLEAN : GenerationCompletes(r, success)
    \/ \E state \in background.timers : PushTimerFires(state)
    \/ PopupLoads
    \/ PopupCloses
    \/ SettingsChange

SpecPopup == Init /\ [][NextPopup]_vars

\* C28: for every auto try-on that opened or updated the result popup, once
\* handleAutoTryOn has returned the popup state of that request
\* (currentPopupState and the state the popup page was last given) is success
\* or error, and no loading state of that request is delivered afterwards.
C28_PopupEndsFinal ==
    \A r \in background.reqs :
        (r.pc = "done" /\ r.popup)
          => /\ background.currentPopupState.req = r.id
                  => background.currentPopupState.state \in {"success", "error"}
             /\ background.shown.req = r.id
                  => background.shown.state \in {"success", "error"}

MaxRuns == 3

\* the positions of list after position pos that are not processed
Unprocessed(list, pos) == {i \in DOMAIN list : i > pos /\ ~list[i].processed}

\* a call of processPendingResults starts and awaits the storage read
StartRun(sp) ==
    [sp EXCEPT !.started = @ + 1,
               !.runs = @ \cup {[id |-> sp.started + 1, pc |-> "read",
                                 list |-> <<>>, pos |-> 0]}]

\* an auto try-on succeeds in the background: saveToHistoryAndCloud appends
\* the result, and storage.onChanged is notified in the open side panel
AutoTryOnSucceeds ==
    /\ background.requested < MaxRequests
    /\ background' = [background EXCEPT !.requested = @ + 1]
    /\ storage' = [storage EXCEPT
                     !.pendingAutoModeResults = AppendPending(@, background.requested + 1)]
    /\ sidepanel' = [sidepanel EXCEPT !.events = IF sidepanel.mounted THEN @ + 1 ELSE @]
    /\ UNCHANGED <<page, script>>

\* the effect of App runs: processPendingResults is called and the
\* storage.onChanged listener is added
Mounts ==
    /\ ~sidepanel.mounted
    /\ sidepanel' = StartRun([sidepanel EXCEPT !.mounted = TRUE])
    /\ UNCHANGED <<page, storage, script, background>>

\* handleStorageChange with changes.pendingAutoModeResults
handleStorageChange ==
    /\ sidepanel.events > 0
    /\ sidepanel.started < MaxRuns
    /\ sidepanel' = StartRun([sidepanel EXCEPT !.events = @ - 1])
    /\ UNCHANGED <<page, storage, script, background>>

\* processPendingResults resumes with the stored list: it returns when
\* nothing is unprocessed, else it starts on the first unprocessed result
RunReads(run) ==
    /\ run \in sidepanel.runs /\ run.pc = "read"
    /\ LET list == storage.pendingAutoModeResults
       IN sidepanel' =
            [sidepanel EXCEPT
               !.runs = IF Unprocessed(list, 0) = {}
                        THEN @ \ {run}
                        ELSE (@ \ {run}) \cup
                             {[run EXCEPT !.pc = "save", !.list = list,
                                          !.pos = Min(Unprocessed(list, 0))]}]
    /\ UNCHANGED <<page, storage, script, background>>

\* one turn of the loop of processPendingResults: the result is saved with
\* saveTryOnResult and marked processed in the list read (ok), or the turn
\* fails and the result stays unprocessed
RunSaves(run, ok) ==
    /\ run \in sidepanel.runs /\ run.pc = "save"
    /\ LET saved == run.list[run.pos].id
           list == IF ok THEN [run.list EXCEPT ![run.pos].processed = TRUE] ELSE run.list
           rest == Unprocessed(run.list, run.pos)
       IN sidepanel' =
            [sidepanel EXCEPT
               !.history = IF ok THEN Append(@, saved) ELSE @,
               !.runs = (@ \ {run}) \cup
                        {IF rest = {} THEN [run EXCEPT !.pc = "write", !.list = list]
                         ELSE [run EXCEPT !.list = list, !.pos = Min(rest)]}]
    /\ UNCHANGED <<page, storage, script, background>>

\* processPendingResults writes the list it read, with its processed flags,
\* back to storage; storage.onChanged is notified when the value changed
RunWrites(run) ==
    /\ run \in sidepanel.runs /\ run.pc = "write"
    /\ storage' = [storage EXCEPT !.pendingAutoModeResults = run.list]
    /\ sidepanel' =
         [sidepanel EXCEPT
            !.runs = @ \ {run},
            !.events = IF run.list # storage.pendingAutoModeResults THEN @ + 1 ELSE @]
    /\ UNCHANGED <<page, script, background>>

NextPanel ==
    \/ AutoTryOnSucceeds
    \/ Mounts
    \/ handleStorageChange
    \/ \E run \in sidepanel.runs : RunReads(run)
    \/ \E run \in sidepanel.runs : \E ok \in BOOLEAN : RunSaves(run, ok)
    \/ \E run \in sidepanel.runs : RunWrites(run)

SpecPanel == Init /\ [][NextPanel]_vars

\* C30: every pending auto-mode result is saved to the history at most once,
\* however the calls of processPendingResults on mount and on storage changes
\* interleave.
C30_SavedAtMostOnce ==
    \A id \in 1..MaxRequests :
        Cardinality({i \in DOMAIN sidepanel.history : sidepanel.history[i] = id}) <= 1

====
